---- MODULE Spec2Model ----
(***************************************************************************)
(* Model of c2pa-walkthrough (src/src/main.rs).                            *)
(*                                                                         *)
(* The program is one sequential process: main parses --path, derives the  *)
(* output file name, calls create_new_manifest, then the three             *)
(* edit_media_with_action calls of the tuple at main.rs:244-248, and       *)
(* finally read_manifest.  Every fallible call of the c2pa SDK is one      *)
(* step; `pc` is the position of the process.                              *)
(*                                                                         *)
(* The c2pa SDK itself (Manifest, Ingredient, ManifestStore) is not part   *)
(* of the source tree.  Its operations are modelled at their call sites    *)
(* with the contracts the specification gives them (sections 3, 4.3-4.6);  *)
(* these definitions are the ones marked as modelled from the              *)
(* specification in the model map.  File and key I/O may fail at any       *)
(* call (the "Err" outcome drawn by the actions).                          *)
(*                                                                         *)
(* Not modelled: wall-clock values (`when`, MediaData.ts), which are       *)
(* opaque payload here, and the bytes of the container format.             *)
(***************************************************************************)
EXTENDS Integers, Sequences, FiniteSets, TLC

VARIABLES
    pc,                 \* position of the process
    path,               \* main: `path`, <<>> when --path is absent
    file_with_manifest, \* main: output file name ("" until computed)
    files,              \* the file system: name -> asset
    next_id,            \* source of fresh instance ids
    manifest,           \* local `manifest` of the running function (<<>>: none)
    parent,             \* local `parent` of edit_media_with_action (<<>>: none)
    ai,                 \* create_new_manifest: index of the next assertion to add
    cur,                \* main: which element of the edit tuple is being evaluated
    create_result,      \* result of create_new_manifest ("" until it returned)
    results,            \* results of the edits evaluated so far
    manifest_store,     \* read_manifest: local `manifest_store` (<<>>: none)
    tampered,           \* the output asset's content was changed after embedding
    calls,              \* history: the calls main has made, in order
    snap                \* history: instance id -> parent as given to set_parent

vars == <<pc, path, file_with_manifest, files, next_id, manifest, parent, ai,
          cur, create_result, results, manifest_store, tampered, calls, snap>>

----------------------------------------------------------------------------
(* Bounds *)

\* Asset contents are drawn from 0..MaxContent.
MaxContent == 2

----------------------------------------------------------------------------
(* Values of the program *)

ClaimGenerator == "mikes-c2pa-test-code/0.1"

\* c2pa_action::CREATED / OPENED and the three edits of main
CREATED == "c2pa.created"
OPENED == "c2pa.opened"
CROPPED == "c2pa.cropped"
FILTERED == "c2pa.filtered"
COLOR_ADJUSTMENTS == "c2pa.color_adjustments"

EditActions == <<CROPPED, FILTERED, COLOR_ADJUSTMENTS>>

\* The --path arguments explored: absent, one without an extension, two
\* that match the regex of main.rs:225.
PathArgs == {<<>>, <<"noext">>, <<"test_file.jpg">>, <<"img.png">>}

\* Regex (.+)\.([a-zA-Z]+) on the explored arguments: <<>> when there is no
\* match, else <<group 1, group 2>>.
Captures(p) ==
    CASE p = "test_file.jpg" -> <<"test_file", "jpg">>
      [] p = "img.png" -> <<"img", "png">>
      [] OTHER -> <<>>

\* main.rs:230-237: prefix + "_c2pa" + "." + extension
OutputName(p) ==
    CASE p = "test_file.jpg" -> "test_file_c2pa.jpg"
      [] p = "img.png" -> "img_c2pa.png"
      [] OTHER -> ""

FileNames == {"test_file.jpg", "img.png", "test_file_c2pa.jpg", "img_c2pa.png"}

\* The assertions create_new_manifest adds, in order (main.rs:110-115).
CreateAssertions ==
    << [label |-> "stds.schema-org.CreativeWork", payload |-> <<"Mike Cvet", "mikecvet">>],
       [label |-> "c2pa.actions", payload |-> <<CREATED>>],
       [label |-> "stds.exif", payload |-> <<"exif">>],
       [label |-> "org.contentauth.test", payload |-> <<"128", "256", "descriptive string">>] >>

\* The Actions assertion edit_media_with_action builds (main.rs:147-164).
EditAssertion(action) ==
    [label |-> "c2pa.actions", payload |-> <<OPENED, action>>]

----------------------------------------------------------------------------
(* The c2pa SDK, by its contract *)

Digest(content) == content + 1

Labels(m) == {m.assertions[i].label : i \in 1..Len(m.assertions)}

\* Manifest::new
NewManifest(gen, id) ==
    [claim_generator |-> gen, title |-> "", format |-> "",
     instance_id |-> id, assertions |-> <<>>, parent |-> <<>>,
     signature |-> <<>>, content_digest |-> <<>>]

\* Manifest::add_assertion / add_labeled_assertion
AddAssertion(m, a) ==
    IF m.signature # <<>> THEN [err |-> "ImmutableManifestError", m |-> m]
    ELSE IF a.label \in Labels(m) THEN [err |-> "DuplicateLabelError", m |-> m]
    ELSE [err |-> "", m |-> [m EXCEPT !.assertions = Append(@, a)]]

\* Manifest::set_parent
SetParent(m, ing) ==
    IF m.parent # <<>> THEN [err |-> "DuplicateParentError", m |-> m]
    ELSE [err |-> "", m |-> [m EXCEPT !.parent = <<ing>>]]

\* The active manifest of an asset: the most recently embedded one.
Active(f) == IF f.store = <<>> THEN <<>> ELSE <<f.store[Len(f.store)]>>

\* Ingredient::from_file: the asset version and a copy of its active manifest.
IngredientFromFile(f) ==
    [instance_id |-> f.instance_id, parent_manifest |-> Active(f)]

\* chain(): the manifests from m along parent.parent_manifest, newest first;
\* CyclicChainError when a link revisits an instance id.
RECURSIVE Chain(_, _)
Chain(m, visited) ==
    IF m.instance_id \in visited THEN [err |-> "CyclicChainError", seq |-> <<>>]
    ELSE IF m.parent = <<>> \/ m.parent[1].parent_manifest = <<>>
         THEN [err |-> "", seq |-> <<m>>]
    ELSE LET rest == Chain(m.parent[1].parent_manifest[1], visited \cup {m.instance_id})
         IN  [err |-> rest.err,
              seq |-> IF rest.err = "" THEN <<m>> \o rest.seq ELSE <<>>]

Reverse(s) == [i \in 1..Len(s) |-> s[Len(s) + 1 - i]]

\* chain_of(manifest_store)
ChainOf(store) ==
    IF store = <<>> THEN [err |-> "", seq |-> <<>>]
    ELSE Chain(store[Len(store)], {})

\* Signer::sign over the manifest and the digest of the content
Sign(m, digest) == <<[alg |-> "ps256", id |-> m.instance_id, digest |-> digest]>>

\* Manifest::embed: the asset written to the destination: the source's
\* content, and the store holding the manifest's ancestors and the signed
\* manifest, which becomes the active one.
SignedManifest(m, src) ==
    [m EXCEPT !.content_digest = <<Digest(src.content)>>,
              !.signature = Sign(m, Digest(src.content))]

\* Embed with the ingredients of the stored manifests kept as references to
\* the asset being written instead of copies.
EmbedLiveParent(m, src) ==
    LET sm == SignedManifest(m, src)
        old == Reverse(ChainOf(<<sm>>).seq)
        relink(x) == IF x.parent = <<>> THEN x
                     ELSE [x EXCEPT !.parent[1].instance_id = sm.instance_id]
    IN  [content |-> src.content, instance_id |-> sm.instance_id,
         store |-> [i \in 1..Len(old) |-> relink(old[i])]]

Embed(m, src) ==
    LET sm == SignedManifest(m, src)
    IN  [content |-> src.content, instance_id |-> sm.instance_id,
         store |-> Reverse(ChainOf(<<sm>>).seq)]

\* ManifestStore::from_file: NoManifestFoundError for an asset without a
\* store; else the store and the statuses of the checks of every manifest.
Statuses(f) ==
    LET bad == {i \in 1..Len(f.store) :
                    f.store[i].content_digest # <<Digest(f.content)>>}
    IN  [i \in 1..Cardinality(bad) |-> "ContentTampered"]

OpenAndVerify(f) ==
    IF f.store = <<>> THEN [err |-> "NoManifestFoundError", store |-> <<>>]
    ELSE [err |-> "",
          store |-> <<[manifests |-> f.store, statuses |-> Statuses(f)]>>]

----------------------------------------------------------------------------
(* The program: main.rs *)

Init ==
    /\ pc = "main"
    /\ path \in PathArgs
    /\ file_with_manifest = ""
    /\ \E c \in 0..MaxContent :
         files = [n \in FileNames |-> [content |-> c, instance_id |-> 0, store |-> <<>>]]
    /\ next_id = 1
    /\ manifest = <<>>
    /\ parent = <<>>
    /\ ai = 1
    /\ cur = 1
    /\ create_result = ""
    /\ results = <<>>
    /\ manifest_store = <<>>
    /\ tampered = FALSE
    /\ calls = <<>>
    /\ snap = <<>>

Call(fn, src, dest, action, result) ==
    [fn |-> fn, src |-> src, dest |-> dest, action |-> action, result |-> result]

\* main.rs:221-237: the argument, the regex and the output name
MainStart ==
    /\ pc = "main"
    /\ IF path = <<>>
       THEN pc' = "done" /\ UNCHANGED file_with_manifest
       ELSE IF Captures(path[1]) = <<>>
       THEN pc' = "panic_unwrap" /\ UNCHANGED file_with_manifest
       ELSE pc' = "c_new" /\ file_with_manifest' = OutputName(path[1])
    /\ UNCHANGED <<path, files, next_id, manifest, parent, ai, cur, create_result,
                   results, manifest_store, tampered, calls, snap>>

\* create_new_manifest returns to main.rs:239-242
CreateReturn(res) ==
    /\ create_result' = res
    /\ calls' = Append(calls, Call("create_new_manifest", path[1], file_with_manifest, "", res))
    /\ pc' = IF res = "Ok" THEN "e_from_file" ELSE "panic_create"
    /\ manifest' = <<>>

\* main.rs:38-107
CreateNew ==
    /\ pc = "c_new"
    /\ manifest' = <<[NewManifest(ClaimGenerator, next_id) EXCEPT
                        !.title = "title", !.format = "image/jpeg"]>>
    /\ next_id' = next_id + 1
    /\ snap' = Append(snap, <<>>)
    /\ ai' = 1
    /\ pc' = "c_add"
    /\ UNCHANGED <<path, file_with_manifest, files, parent, cur, create_result,
                   results, manifest_store, tampered, calls>>

\* main.rs:110-115: the four add_assertion calls, each with `?`
CreateAdd ==
    /\ pc = "c_add"
    /\ LET r == AddAssertion(manifest[1], CreateAssertions[ai])
       IN  IF r.err # ""
           THEN CreateReturn("Err") /\ UNCHANGED ai
           ELSE /\ manifest' = <<r.m>>
                /\ ai' = ai + 1
                /\ pc' = IF ai = Len(CreateAssertions) THEN "c_signer" ELSE "c_add"
                /\ UNCHANGED <<create_result, calls>>
    /\ UNCHANGED <<path, file_with_manifest, files, next_id, parent, cur,
                   results, manifest_store, tampered, snap>>

\* main.rs:125-127 and the unwrap of main.rs:130
CreateSigner ==
    /\ pc = "c_signer"
    /\ \E ok \in BOOLEAN : pc' = IF ok THEN "c_embed" ELSE "panic_signer"
    /\ UNCHANGED <<path, file_with_manifest, files, next_id, manifest, parent, ai, cur,
                   create_result, results, manifest_store, tampered, calls, snap>>

\* main.rs:130
CreateEmbed ==
    /\ pc = "c_embed"
    /\ \E ok \in BOOLEAN :
         IF ok
         THEN /\ files' = [files EXCEPT ![file_with_manifest] = Embed(manifest[1], files[path[1]])]
              /\ CreateReturn("Ok")
         ELSE /\ UNCHANGED files
              /\ CreateReturn("Err")
    /\ UNCHANGED <<path, file_with_manifest, next_id, parent, ai, cur,
                   results, manifest_store, tampered, snap>>

\* An edit that reads the original input instead of the previous output.
EditSrcOriginal == path[1]

\* main.rs:245-247: the source and the destination of every edit
EditSrc == file_with_manifest

EditDest == file_with_manifest

\* edit_media_with_action returns into the tuple of main.rs:244-248: the next
\* element is evaluated whatever this one returned.
EditReturn(res) ==
    /\ results' = Append(results, res)
    /\ calls' = Append(calls, Call("edit_media_with_action", EditSrc, EditDest,
                                   EditActions[cur], res))
    /\ manifest' = <<>>
    /\ parent' = <<>>
    /\ cur' = cur + 1
    /\ pc' = IF cur = Len(EditActions) THEN "match" ELSE "e_from_file"

\* main.rs:139
EditFromFile ==
    /\ pc = "e_from_file"
    /\ \E ok \in BOOLEAN :
         IF ok
         THEN /\ parent' = <<IngredientFromFile(files[EditSrc])>>
              /\ pc' = "e_new"
              /\ UNCHANGED <<manifest, cur, results, calls>>
         ELSE EditReturn("Err")
    /\ UNCHANGED <<path, file_with_manifest, files, next_id, ai, create_result,
                   manifest_store, tampered, snap>>

\* main.rs:141-164: the manifest and the two actions; set_parameter of a
\* string does not fail, so the two `expect`s do not panic.
EditNew ==
    /\ pc = "e_new"
    /\ manifest' = <<NewManifest(ClaimGenerator, next_id)>>
    /\ next_id' = next_id + 1
    /\ snap' = Append(snap, <<>>)
    /\ pc' = "e_set_parent"
    /\ UNCHANGED <<path, file_with_manifest, files, parent, ai, cur, create_result,
                   results, manifest_store, tampered, calls>>

\* main.rs:166: the ingredient is moved into the manifest
EditSetParent ==
    /\ pc = "e_set_parent"
    /\ LET r == SetParent(manifest[1], parent[1])
       IN  IF r.err # ""
           THEN EditReturn("Err") /\ UNCHANGED snap
           ELSE /\ manifest' = <<r.m>>
                /\ parent' = <<>>
                /\ snap' = [snap EXCEPT ![manifest[1].instance_id] = <<parent[1]>>]
                /\ pc' = "e_add"
                /\ UNCHANGED <<cur, results, calls>>
    /\ UNCHANGED <<path, file_with_manifest, files, next_id, ai, create_result,
                   manifest_store, tampered>>

\* main.rs:167
EditAdd ==
    /\ pc = "e_add"
    /\ LET r == AddAssertion(manifest[1], EditAssertion(EditActions[cur]))
       IN  IF r.err # ""
           THEN EditReturn("Err")
           ELSE /\ manifest' = <<r.m>>
                /\ pc' = "e_signer"
                /\ UNCHANGED <<parent, cur, results, calls>>
    /\ UNCHANGED <<path, file_with_manifest, files, next_id, ai, create_result,
                   manifest_store, tampered, snap>>

\* main.rs:170-172 and the unwrap of main.rs:174
EditSigner ==
    /\ pc = "e_signer"
    /\ \E ok \in BOOLEAN : pc' = IF ok THEN "e_embed" ELSE "panic_signer"
    /\ UNCHANGED <<path, file_with_manifest, files, next_id, manifest, parent, ai, cur,
                   create_result, results, manifest_store, tampered, calls, snap>>

\* main.rs:174
EditEmbed ==
    /\ pc = "e_embed"
    /\ \E ok \in BOOLEAN :
         IF ok
         THEN /\ files' = [files EXCEPT ![EditDest] = Embed(manifest[1], files[EditSrc])]
              /\ EditReturn("Ok")
         ELSE /\ UNCHANGED files
              /\ EditReturn("Err")
    /\ UNCHANGED <<path, file_with_manifest, next_id, ai, create_result,
                   manifest_store, tampered, snap>>

\* An arm that looks at the first result only: (Ok(()), _, _)
FirstEditOk == results # <<>> /\ results[1] = "Ok"

\* main.rs:249: the arm that calls read_manifest
AllEditsOk == results = <<"Ok", "Ok", "Ok">>

\* main.rs:244-255
Match ==
    /\ pc = "match"
    /\ IF AllEditsOk
       THEN /\ pc' = "r_from_file"
            /\ calls' = Append(calls, Call("read_manifest", file_with_manifest, "", "", ""))
       ELSE /\ pc' = IF results[1] = "Err" THEN "panic_cropping"
                     ELSE IF results[2] = "Err" THEN "panic_filtering"
                     ELSE "panic_color_adjustment"
            /\ UNCHANGED calls
    /\ UNCHANGED <<path, file_with_manifest, files, next_id, manifest, parent, ai, cur,
                   create_result, results, manifest_store, tampered, snap>>

\* The environment changes the content of the output asset after a manifest
\* was embedded in it.
Tamper ==
    /\ pc \in {"e_from_file", "match", "r_from_file"}
    /\ ~tampered
    /\ \E c \in (0..MaxContent) \ {files[file_with_manifest].content} :
         files' = [files EXCEPT ![file_with_manifest].content = c]
    /\ tampered' = TRUE
    /\ UNCHANGED <<pc, path, file_with_manifest, next_id, manifest, parent, ai, cur,
                   create_result, results, manifest_store, calls, snap>>

\* main.rs:182; an Err is returned by `?` and main.rs:250 `expect`s
ReadFromFile ==
    /\ pc = "r_from_file"
    /\ \E ok \in BOOLEAN :
         LET r == OpenAndVerify(files[file_with_manifest])
         IN  IF ok /\ r.err = ""
             THEN manifest_store' = r.store /\ pc' = "r_match"
             ELSE pc' = "panic_expect" /\ UNCHANGED manifest_store
    /\ UNCHANGED <<path, file_with_manifest, files, next_id, manifest, parent, ai, cur,
                   create_result, results, tampered, calls, snap>>

\* main.rs:184-194
ReadMatch ==
    /\ pc = "r_match"
    /\ pc' = IF manifest_store[1].statuses # <<>> THEN "panic_validation" ELSE "r_print"
    /\ UNCHANGED <<path, file_with_manifest, files, next_id, manifest, parent, ai, cur,
                   create_result, results, manifest_store, tampered, calls, snap>>

\* main.rs:196-207
ReadPrint ==
    /\ pc = "r_print"
    /\ pc' = IF manifest_store[1].manifests = <<>> THEN "panic_unwrap" ELSE "done"
    /\ UNCHANGED <<path, file_with_manifest, files, next_id, manifest, parent, ai, cur,
                   create_result, results, manifest_store, tampered, calls, snap>>

Next ==
    \/ MainStart
    \/ CreateNew
    \/ CreateAdd
    \/ CreateSigner
    \/ CreateEmbed
    \/ EditFromFile
    \/ EditNew
    \/ EditSetParent
    \/ EditAdd
    \/ EditSigner
    \/ EditEmbed
    \/ Match
    \/ Tamper
    \/ ReadFromFile
    \/ ReadMatch
    \/ ReadPrint

Spec == Init /\ [][Next]_vars

----------------------------------------------------------------------------
(* Properties *)

ReadInvoked == \E i \in 1..Len(calls) : calls[i].fn = "read_manifest"

SomeErr == \E i \in 1..Len(calls) : calls[i].result = "Err"

OutStore == IF file_with_manifest = "" THEN <<>> ELSE files[file_with_manifest].store

\* The results of the edit calls that returned Ok, as the actions they applied.
RECURSIVE OkActions(_)
OkActions(n) ==
    IF n = 0 THEN <<>>
    ELSE OkActions(n - 1) \o (IF results[n] = "Ok" THEN <<EditActions[n]>> ELSE <<>>)

\* The action list of a manifest: the payload of its c2pa.actions assertion.
ActionsOf(m) ==
    LET is == {i \in 1..Len(m.assertions) : m.assertions[i].label = "c2pa.actions"}
    IN  IF is = {} THEN <<>> ELSE m.assertions[CHOOSE i \in is : TRUE].payload

\* C2: chain length.  Once create_new_manifest has embedded, walking the
\* output asset from its active manifest along the parent links gives, without
\* error, one manifest per successful embedding: the N edits that returned Ok,
\* newest first, each recording the action it applied, and last the creation
\* manifest, which has no parent; N + 1 manifests, so 4 when the three edits of
\* the run succeeded.
C2_ChainLength ==
    create_result = "Ok" =>
        LET ch == ChainOf(OutStore)
            acts == OkActions(Len(results))
            n == Len(acts)
        IN  /\ ch.err = ""
            /\ Len(ch.seq) = n + 1
            /\ ch.seq[1] = OutStore[Len(OutStore)]
            /\ \A k \in 1..n : ActionsOf(ch.seq[k]) = <<OPENED, acts[n + 1 - k]>>
            /\ ActionsOf(ch.seq[n + 1]) = <<CREATED>>
            /\ ch.seq[n + 1].parent = <<>>
            /\ (results = <<"Ok", "Ok", "Ok">> => Len(ch.seq) = 4)

C2_Witness ==
    /\ pc = "done"
    /\ results = <<"Ok", "Ok", "Ok">>
    /\ Len(ChainOf(OutStore).seq) = 4

\* C3: tamper detection is reported, not fatal.  When the content of the
\* output asset was changed after embedding and read_manifest has opened it,
\* the statuses contain ContentTampered and the read path has not aborted.
C3_TamperReportedNotFatal ==
    (tampered /\ manifest_store # <<>>) =>
        /\ \E i \in 1..Len(manifest_store[1].statuses) :
               manifest_store[1].statuses[i] = "ContentTampered"
        /\ pc # "panic_validation"

\* Every manifest held anywhere: the local manifest and ingredient, the stores
\* of the files and of read_manifest, and the snapshots nested in them.
RECURSIVE Nested(_)
Nested(m) ==
    {m} \cup (IF m.parent = <<>> \/ m.parent[1].parent_manifest = <<>> THEN {}
              ELSE Nested(m.parent[1].parent_manifest[1]))

SeqManifests(s) == UNION {Nested(s[i]) : i \in 1..Len(s)}

AllManifests ==
    SeqManifests(manifest)
      \cup (IF parent = <<>> THEN {} ELSE SeqManifests(parent[1].parent_manifest))
      \cup UNION {SeqManifests(files[n].store) : n \in FileNames}
      \cup (IF manifest_store = <<>> THEN {} ELSE SeqManifests(manifest_store[1].manifests))

C10_PipelineOrdering ==
    /\ pc \in {"r_from_file", "r_match", "r_print", "panic_expect", "panic_validation"}
         => ReadInvoked
    /\ SomeErr => ~ReadInvoked
    /\ ReadInvoked =>
         calls = << Call("create_new_manifest", path[1], file_with_manifest, "", "Ok"),
                    Call("edit_media_with_action", file_with_manifest, file_with_manifest,
                         CROPPED, "Ok"),
                    Call("edit_media_with_action", file_with_manifest, file_with_manifest,
                         FILTERED, "Ok"),
                    Call("edit_media_with_action", file_with_manifest, file_with_manifest,
                         COLOR_ADJUSTMENTS, "Ok"),
                    Call("read_manifest", file_with_manifest, "", "", "") >>

C10_Witness == pc = "done" /\ ReadInvoked

====
